---- MODULE Spec2Model ----
(***************************************************************************)
(* RESP codec (RespReader / RespWriter) and GenericConnection of ruis.     *)
(* Bytes are naturals 0..255, byte strings are sequences of bytes.         *)
(* An i64 is kept as a sign and a decimal magnitude (a sequence of digits  *)
(* without leading zeros) so that the whole signed 64-bit range, and the   *)
(* range check of i64::from_str, are exact.                                *)
(***************************************************************************)
EXTENDS Integers, Sequences, FiniteSets, TLC

\* ------------------------------------------------------------------ bytes
CR == 13
LF == 10
Colon == 58
Plus == 43
Minus == 45
Dollar == 36
Star == 42
Zero == 48
CRLF == <<CR, LF>>

\* "auth", the command name GenericConnection::auth sends
AuthName == <<97, 117, 116, 104>>
\* "AUTH"
AuthUpper == <<65, 85, 84, 72>>

\* ------------------------------------------------------------------ bounds
\* longest byte string enumerated exhaustively over Alphabet
MaxLen == 2
\* length of the one long payload (two-digit length prefix)
LongLen == 11
\* write calls counted for an injected write fault (0 = no fault)
MaxFailAt == 2
\* commands executed on one connection
MaxExec == 2
\* values held back to back on one stream
MaxVals == 2

Alphabet == {CR, LF, 97, 255}

RECURSIVE SeqsUpTo(_, _)
SeqsUpTo(S, n) ==
    IF n = 0 THEN {<< >>}
    ELSE LET T == SeqsUpTo(S, n - 1)
         IN  T \cup {Append(t, x) : t \in {u \in T : Len(u) = n - 1}, x \in S}

RECURSIVE Repeat(_, _)
Repeat(x, n) == IF n = 0 THEN << >> ELSE <<x>> \o Repeat(x, n - 1)

RECURSIVE Concat(_)
Concat(ss) == IF Len(ss) = 0 THEN << >> ELSE Head(ss) \o Concat(Tail(ss))

Drop(s, k) == SubSeq(s, k + 1, Len(s))
Take(s, k) == SubSeq(s, 1, k)

\* ------------------------------------------------------------------ i64
\* magnitude of i64::MAX (9223372036854775807) and of i64::MIN (...808)
MaxMagPos == <<9,2,2,3,3,7,2,0,3,6,8,5,4,7,7,5,8,0,7>>
MaxMagNeg == <<9,2,2,3,3,7,2,0,3,6,8,5,4,7,7,5,8,0,8>>

RECURSIVE MagLE(_, _)
MagLE(a, b) ==
    IF Len(a) # Len(b) THEN Len(a) < Len(b)
    ELSE IF Len(a) = 0 THEN TRUE
    ELSE IF Head(a) # Head(b) THEN Head(a) < Head(b)
    ELSE MagLE(Tail(a), Tail(b))

RECURSIVE StripZeros(_)
StripZeros(d) ==
    IF Len(d) > 1 /\ Head(d) = 0 THEN StripZeros(Tail(d)) ELSE d

I64(neg, mag) == [neg |-> neg, mag |-> mag]
I64Zero == I64(FALSE, <<0>>)
I64MinusOne == I64(TRUE, <<1>>)
I64Max == I64(FALSE, MaxMagPos)
I64Min == I64(TRUE, MaxMagNeg)

\* numbers above this saturate when an i64 is used as a usize count: every
\* stream of the model is shorter, so the count behaves as the real one
UsizeCap == 999999999

RECURSIVE MagToNat(_, _)
MagToNat(d, acc) ==
    IF Len(d) = 0 THEN acc ELSE MagToNat(Tail(d), acc * 10 + Head(d))

\* `n as usize` for n >= 0
AsUsize(n) == IF Len(n.mag) > 9 THEN UsizeCap ELSE MagToNat(n.mag, 0)

RECURSIVE NatToMag(_)
NatToMag(n) == IF n < 10 THEN <<n>> ELSE Append(NatToMag(n \div 10), n % 10)

DigitBytes(mag) == [i \in 1..Len(mag) |-> Zero + mag[i]]

\* an i64 formatted without its sign
FmtI64_NoSign(n) == DigitBytes(n.mag)

\* format_args!("{}", n) for n: i64
FmtI64(n) == (IF n.neg THEN <<Minus>> ELSE << >>) \o DigitBytes(n.mag)

\* format_args!("{}", n) for n: usize
FmtUsize(n) == DigitBytes(NatToMag(n))

\* ------------------------------------------------------------------ values
\* RespValue; one record shape for all variants
NoI64 == I64(FALSE, << >>)
IntV(n) == [tag |-> "Int", n |-> n, b |-> << >>, a |-> << >>]
Bulk(b) == [tag |-> "Bulk", n |-> NoI64, b |-> b, a |-> << >>]
Error(b) == [tag |-> "Error", n |-> NoI64, b |-> b, a |-> << >>]
Array(a) == [tag |-> "Array", n |-> NoI64, b |-> << >>, a |-> a]
NilBulk == [tag |-> "NilBulk", n |-> NoI64, b |-> << >>, a |-> << >>]
NilArray == [tag |-> "NilArray", n |-> NoI64, b |-> << >>, a |-> << >>]
NoValue == [tag |-> "None", n |-> NoI64, b |-> << >>, a |-> << >>]

\* RespError
\* RespError; ch is the byte an "unexpected token" message names
IoError == [kind |-> "IoError", msg |-> "io", ch |-> 0]
ParseFailed(m) == [kind |-> "ParseFailed", msg |-> m, ch |-> 0]
UnexpectedToken(c) ==
    [kind |-> "ParseFailed", msg |-> "unexpected token", ch |-> c]
NoError == [kind |-> "None", msg |-> "", ch |-> 0]

\* ------------------------------------------------------------------ writer
\* Every emitter is the sequence of chunks it hands to the sink, one chunk
\* per write_fmt / write_all call, in call order.

WriteIntChunks(n) == << <<Colon>> \o FmtI64(n) \o CRLF >>

\* write_bulk without the CR LF after the payload
WriteBulkChunks_NoTrailer(b) == << <<Dollar>> \o FmtUsize(Len(b)) \o CRLF, b >>

WriteBulkChunks(b) == << <<Dollar>> \o FmtUsize(Len(b)) \o CRLF, b, CRLF >>

WriteBulksChunks(bs) ==
    << <<Star>> \o FmtUsize(Len(bs)) \o CRLF >>
        \o Concat([i \in 1..Len(bs) |-> WriteBulkChunks(bs[i])])

WriteStatusChunks(s) == << <<Plus>> \o s \o CRLF >>

WriteErrorChunks(s) == << <<Minus>> \o s \o CRLF >>

\* U+FFFD in UTF-8
Replacement == <<239, 191, 189>>

IsCont(c) == c >= 128 /\ c <= 191

\* length of the valid UTF-8 scalar at the head of s, 0 when there is none
Utf8Head(s) ==
    LET c == s[1]
        k(i) == IF Len(s) >= i THEN s[i] ELSE 0
    IN  IF c < 128 THEN 1
        ELSE IF c >= 194 /\ c <= 223
            THEN IF IsCont(k(2)) THEN 2 ELSE 0
        ELSE IF c >= 224 /\ c <= 239
            THEN IF /\ IsCont(k(2)) /\ IsCont(k(3))
                    /\ (c = 224 => k(2) >= 160)
                    /\ (c = 237 => k(2) <= 159)
                 THEN 3 ELSE 0
        ELSE IF c >= 240 /\ c <= 244
            THEN IF /\ IsCont(k(2)) /\ IsCont(k(3)) /\ IsCont(k(4))
                    /\ (c = 240 => k(2) >= 144)
                    /\ (c = 244 => k(2) <= 143)
                 THEN 4 ELSE 0
        ELSE 0

\* std::str::from_utf8(buf).is_ok()
RECURSIVE IsUtf8(_)
IsUtf8(s) ==
    IF Len(s) = 0 THEN TRUE
    ELSE LET h == Utf8Head(s) IN h > 0 /\ IsUtf8(Drop(s, h))

\* bytes of the maximal invalid prefix that from_utf8_lossy replaces by one
\* U+FFFD: a lead byte with the continuation bytes that were acceptable
InvalidSpan(s) ==
    LET c == s[1]
        k(i) == IF Len(s) >= i THEN s[i] ELSE 0
        ok2 == /\ IsCont(k(2))
               /\ (c = 224 => k(2) >= 160) /\ (c = 237 => k(2) <= 159)
               /\ (c = 240 => k(2) >= 144) /\ (c = 244 => k(2) <= 143)
    IN  IF c >= 224 /\ c <= 244 /\ ok2
        THEN IF c >= 240 /\ IsCont(k(3)) THEN 3 ELSE 2
        ELSE 1

\* String::from_utf8_lossy(s), as bytes
RECURSIVE Utf8Lossy(_)
Utf8Lossy(s) ==
    IF Len(s) = 0 THEN << >>
    ELSE LET h == Utf8Head(s)
         IN  IF h > 0 THEN Take(s, h) \o Utf8Lossy(Drop(s, h))
             ELSE Replacement \o Utf8Lossy(Drop(s, InvalidSpan(s)))

RECURSIVE WriteChunks(_)
WriteArrayChunks(arr) ==
    << <<Star>> \o FmtUsize(Len(arr)) \o CRLF >>
        \o Concat([i \in 1..Len(arr) |-> WriteChunks(arr[i])])

NilArrayChunks == << <<Star>> \o CRLF \o <<Minus, Zero + 1>> \o CRLF >>
NilBulkChunks == << <<Dollar>> \o CRLF \o <<Minus, Zero + 1>> \o CRLF >>

WriteChunks(v) ==
    CASE v.tag = "Int" -> WriteIntChunks(v.n)
      [] v.tag = "Bulk" -> WriteBulkChunks(v.b)
      [] v.tag = "Error" -> WriteErrorChunks(Utf8Lossy(v.b))
      [] v.tag = "Array" -> WriteArrayChunks(v.a)
      [] v.tag = "NilArray" -> NilArrayChunks
      [] v.tag = "NilBulk" -> NilBulkChunks

\* an emission that skips the failing write call and carries on
Emit_SkipsFailed(chunks, failAt) ==
    IF failAt >= 1 /\ failAt <= Len(chunks)
    THEN [ok |-> FALSE,
          bytes |-> Concat(Take(chunks, failAt - 1))
                        \o Concat(Drop(chunks, failAt)),
          calls |-> Len(chunks)]
    ELSE [ok |-> TRUE, bytes |-> Concat(chunks), calls |-> Len(chunks)]

\* A sink call sequence with an injected fault: the failAt-th write call of
\* the emission fails (0: none fails); the `?` after every call stops the
\* emission there.  Result: the bytes the sink accepted and the outcome.
Emit(chunks, failAt) ==
    IF failAt >= 1 /\ failAt <= Len(chunks)
    THEN [ok |-> FALSE, bytes |-> Concat(Take(chunks, failAt - 1)),
          calls |-> failAt]
    ELSE [ok |-> TRUE, bytes |-> Concat(chunks), calls |-> Len(chunks)]

\* ------------------------------------------------------------------ reader
\* The source R is the unread bytes `s` plus what it returns once they are
\* exhausted: "eof" (Ok(0)) or "err" (an io::Error).

IsDigit(c) == c >= Zero /\ c <= Zero + 9

\* i64::from_str without the range check: an out-of-range numeral goes through
I64FromStr_Unchecked(s) ==
    LET signed == Len(s) > 0 /\ s[1] \in {Plus, Minus}
        neg == Len(s) > 0 /\ s[1] = Minus
        digs == IF signed THEN Tail(s) ELSE s
        mag == StripZeros([i \in 1..Len(digs) |-> digs[i] - Zero])
    IN  IF Len(digs) = 0 \/ \E i \in 1..Len(digs) : ~IsDigit(digs[i])
        THEN [ok |-> FALSE, n |-> NoI64]
        ELSE [ok |-> TRUE, n |-> I64(neg /\ mag # <<0>>, mag)]

\* i64::from_str(s): an optional sign, then one or more decimal digits, the
\* value in the i64 range
I64FromStr(s) ==
    LET signed == Len(s) > 0 /\ s[1] \in {Plus, Minus}
        neg == Len(s) > 0 /\ s[1] = Minus
        digs == IF signed THEN Tail(s) ELSE s
        mag == StripZeros([i \in 1..Len(digs) |-> digs[i] - Zero])
        isZero == mag = <<0>>
    IN  IF Len(digs) = 0 \/ \E i \in 1..Len(digs) : ~IsDigit(digs[i])
        THEN [ok |-> FALSE, n |-> NoI64]
        ELSE IF ~MagLE(mag, IF neg THEN MaxMagNeg ELSE MaxMagPos)
        THEN [ok |-> FALSE, n |-> NoI64]
        ELSE [ok |-> TRUE, n |-> I64(neg /\ ~isZero, mag)]

parse_int(buf) ==
    IF Len(buf) = 0
    THEN [ok |-> FALSE, n |-> NoI64, err |-> ParseFailed("malformed integer")]
    ELSE IF ~IsUtf8(buf)
    THEN [ok |-> FALSE, n |-> NoI64, err |-> ParseFailed("bad utf8")]
    ELSE LET r == I64FromStr(buf)
         IN  IF r.ok THEN [ok |-> TRUE, n |-> r.n, err |-> NoError]
             ELSE [ok |-> FALSE, n |-> NoI64,
                   err |-> ParseFailed("parse int failed")]

\* position of the first LF of s, 0 when there is none
RECURSIVE FirstLF(_, _)
FirstLF(s, i) ==
    IF i > Len(s) THEN 0 ELSE IF s[i] = LF THEN i ELSE FirstLF(s, i + 1)

EndsWithCRLF(l) == Len(l) >= 2 /\ l[Len(l) - 1] = CR /\ l[Len(l)] = LF

\* read_line that takes a bare LF for a terminator
read_line_BareLF(s, end) ==
    LET p == FirstLF(s, 1)
        raw == IF p = 0 THEN s ELSE Take(s, p)
        rest == IF p = 0 THEN << >> ELSE Drop(s, p)
    IN  IF p = 0
        THEN [ok |-> FALSE, line |-> << >>, rest |-> rest,
              err |-> ParseFailed("line not ends with CRLF")]
        ELSE [ok |-> TRUE, rest |-> rest, err |-> NoError,
              line |-> IF EndsWithCRLF(raw) THEN Take(raw, Len(raw) - 2)
                       ELSE Take(raw, Len(raw) - 1)]

\* read_line: [ok, line, err, rest]
read_line(s, end) ==
    LET p == FirstLF(s, 1)
        raw == IF p = 0 THEN s ELSE Take(s, p)
        rest == IF p = 0 THEN << >> ELSE Drop(s, p)
    IN  IF p = 0 /\ end = "err"
        THEN [ok |-> FALSE, line |-> << >>, rest |-> rest,
              err |-> ParseFailed("io err")]
        ELSE IF ~EndsWithCRLF(raw)
        THEN [ok |-> FALSE, line |-> << >>, rest |-> rest,
              err |-> ParseFailed("line not ends with CRLF")]
        ELSE [ok |-> TRUE, line |-> Take(raw, Len(raw) - 2), rest |-> rest,
              err |-> NoError]

\* read_bulk_string that leaves the line after the payload unread
read_bulk_string_KeepsTrailer(s, end, l) ==
    IF Len(s) < l
    THEN [ok |-> FALSE, buf |-> << >>, rest |-> << >>,
          err |-> ParseFailed("io err")]
    ELSE [ok |-> TRUE, buf |-> Take(s, l), rest |-> Drop(s, l),
          err |-> NoError]

\* read_bulk_string that takes any CR LF terminated line after the payload
read_bulk_string_AnyTrailer(s, end, l) ==
    IF Len(s) < l
    THEN [ok |-> FALSE, buf |-> << >>, rest |-> << >>,
          err |-> ParseFailed("io err")]
    ELSE LET ln == read_line(Drop(s, l), end)
         IN  IF ~ln.ok
             THEN [ok |-> FALSE, buf |-> << >>, rest |-> ln.rest,
                   err |-> ln.err]
             ELSE [ok |-> TRUE, buf |-> Take(s, l), rest |-> ln.rest,
                   err |-> NoError]

\* read_bulk_string: [ok, buf, err, rest]
read_bulk_string(s, end, l) ==
    IF Len(s) < l
    THEN [ok |-> FALSE, buf |-> << >>, rest |-> << >>,
          err |-> ParseFailed("io err")]
    ELSE LET ln == read_line(Drop(s, l), end)
         IN  IF ~ln.ok
             THEN [ok |-> FALSE, buf |-> << >>, rest |-> ln.rest,
                   err |-> ln.err]
             ELSE IF Len(ln.line) # 0
             THEN [ok |-> FALSE, buf |-> << >>, rest |-> ln.rest,
                   err |-> ParseFailed("bad bulk string format")]
             ELSE [ok |-> TRUE, buf |-> Take(s, l), rest |-> ln.rest,
                   err |-> NoError]

\* Outcome of read(): st is "ok" (val), "err" (err) or "panic" (the index
\* line[0] out of bounds); rest is the unread remainder; reads counts the
\* read() calls made, the recursive ones included.
Ok(v, rest, k) ==
    [st |-> "ok", val |-> v, err |-> NoError, rest |-> rest, reads |-> k]
Err(e, rest, k) ==
    [st |-> "err", val |-> NoValue, err |-> e, rest |-> rest, reads |-> k]
Panic(rest, k) ==
    [st |-> "panic", val |-> NoValue, err |-> NoError, rest |-> rest,
     reads |-> k]

\* a `-` arm that reports the server's error as a failure of read()
read_error_Fails(body, rest) == Err(ParseFailed("server error"), rest, 1)

\* the `-` arm of read(): the line after the tag, verbatim, as a value
read_error(body, rest) == Ok(Error(body), rest, 1)

\* a `+` arm that passes the line through String::from_utf8_lossy
read_status_Lossy(body, rest) == Ok(Bulk(Utf8Lossy(body)), rest, 1)

\* the `+` arm of read()
read_status(body, rest) == Ok(Bulk(body), rest, 1)

RECURSIVE read(_, _), read_array(_, _, _, _, _)
RECURSIVE read_array_Partial(_, _, _, _, _)
RECURSIVE read_array_Retries(_, _, _, _, _)

\* read_array that returns what it collected when an element read fails
read_array_Partial(s, end, n, arr, k) ==
    IF n = 0 THEN Ok(Array(arr), s, k)
    ELSE LET r == read(s, end)
         IN  IF r.st = "ok"
             THEN read_array_Partial(r.rest, end, n - 1, Append(arr, r.val),
                                     k + r.reads)
             ELSE Ok(Array(arr), r.rest, k + r.reads)

\* a loop that calls read() once more when an element failed
read_array_Retries(s, end, n, arr, k) ==
    IF n = 0 THEN Ok(Array(arr), s, k)
    ELSE LET r == read(s, end)
         IN  IF r.st = "ok"
             THEN read_array_Retries(r.rest, end, n - 1, Append(arr, r.val),
                                     k + r.reads)
             ELSE LET r2 == read(r.rest, end)
                  IN  [r2 EXCEPT !.reads = k + r.reads + r2.reads]

\* the loop of read_array with `n` iterations left, `arr` collected so far
\* and `k` read() calls made
read_array(s, end, n, arr, k) ==
    IF n = 0 THEN Ok(Array(arr), s, k)
    ELSE LET r == read(s, end)
         IN  IF r.st = "ok"
             THEN read_array(r.rest, end, n - 1, Append(arr, r.val),
                             k + r.reads)
             ELSE [r EXCEPT !.reads = k + r.reads]

\* read() that takes every negative length or count for the nil form
read_NegativeIsNil(s, end) ==
    LET ln == read_line(s, end)
    IN  IF ~ln.ok THEN Err(ln.err, ln.rest, 1)
        ELSE IF Len(ln.line) = 0 THEN Panic(ln.rest, 1)
        ELSE
        LET tag == ln.line[1]
            body == Tail(ln.line)
            pi == parse_int(body)
        IN  CASE tag = Colon ->
                    IF pi.ok THEN Ok(IntV(pi.n), ln.rest, 1)
                    ELSE Err(pi.err, ln.rest, 1)
              [] tag = Plus -> read_status(body, ln.rest)
              [] tag = Minus -> read_error(body, ln.rest)
              [] tag = Dollar ->
                    IF ~pi.ok THEN Err(pi.err, ln.rest, 1)
                    ELSE IF pi.n.neg THEN Ok(NilBulk, ln.rest, 1)
                    ELSE LET bs == read_bulk_string(ln.rest, end,
                                                    AsUsize(pi.n))
                         IN  IF bs.ok THEN Ok(Bulk(bs.buf), bs.rest, 1)
                             ELSE Err(bs.err, bs.rest, 1)
              [] tag = Star ->
                    IF ~pi.ok THEN Err(pi.err, ln.rest, 1)
                    ELSE IF pi.n.neg THEN Ok(NilArray, ln.rest, 1)
                    ELSE read_array(ln.rest, end, AsUsize(pi.n), << >>, 1)
              [] OTHER -> Err(UnexpectedToken(tag), ln.rest, 1)

read(s, end) ==
    LET ln == read_line(s, end)
    IN  IF ~ln.ok THEN Err(ln.err, ln.rest, 1)
        ELSE IF Len(ln.line) = 0 THEN Panic(ln.rest, 1)
        ELSE
        LET tag == ln.line[1]
            body == Tail(ln.line)
            pi == parse_int(body)
        IN  CASE tag = Colon ->
                    IF pi.ok THEN Ok(IntV(pi.n), ln.rest, 1)
                    ELSE Err(pi.err, ln.rest, 1)
              [] tag = Plus -> read_status(body, ln.rest)
              [] tag = Minus -> read_error(body, ln.rest)
              [] tag = Dollar ->
                    IF ~pi.ok THEN Err(pi.err, ln.rest, 1)
                    ELSE IF pi.n = I64MinusOne THEN Ok(NilBulk, ln.rest, 1)
                    ELSE IF pi.n.neg
                    THEN Err(ParseFailed("malformed length"), ln.rest, 1)
                    ELSE LET bs == read_bulk_string(ln.rest, end,
                                                    AsUsize(pi.n))
                         IN  IF bs.ok THEN Ok(Bulk(bs.buf), bs.rest, 1)
                             ELSE Err(bs.err, bs.rest, 1)
              [] tag = Star ->
                    IF ~pi.ok THEN Err(pi.err, ln.rest, 1)
                    ELSE IF pi.n = I64MinusOne THEN Ok(NilArray, ln.rest, 1)
                    ELSE IF pi.n.neg
                    THEN Err(ParseFailed("malformed length"), ln.rest, 1)
                    ELSE read_array(ln.rest, end, AsUsize(pi.n), << >>, 1)
              [] OTHER ->
                    Err(UnexpectedToken(tag), ln.rest, 1)

\* ------------------------------------------------------------------ wire
\* The wire form of a value as the reader's tests spell it (`$-1\r\n`,
\* `*-1\r\n`, `-Bar\r\n`, ...): what a server puts on the stream.
RECURSIVE WireEnc(_)
WireEnc(v) ==
    CASE v.tag = "Int" -> <<Colon>> \o FmtI64(v.n) \o CRLF
      [] v.tag = "Bulk" ->
            <<Dollar>> \o FmtUsize(Len(v.b)) \o CRLF \o v.b \o CRLF
      [] v.tag = "Error" -> <<Minus>> \o v.b \o CRLF
      [] v.tag = "Array" ->
            <<Star>> \o FmtUsize(Len(v.a)) \o CRLF
                \o Concat([i \in 1..Len(v.a) |-> WireEnc(v.a[i])])
      [] v.tag = "NilBulk" -> <<Dollar, Minus, Zero + 1>> \o CRLF
      [] v.tag = "NilArray" -> <<Star, Minus, Zero + 1>> \o CRLF

\* ------------------------------------------------------------------ inputs
Strs == SeqsUpTo(Alphabet, MaxLen)
LongStr == Repeat(97, LongLen)
HasLF(b) == \E i \in 1..Len(b) : b[i] = LF

I64s == {I64Zero, I64MinusOne, I64(FALSE, <<4, 2>>), I64Max, I64Min}

Leaves ==
    {IntV(n) : n \in I64s} \cup {Bulk(b) : b \in Strs \cup {LongStr}}
        \cup {Error(b) : b \in Strs} \cup {NilBulk, NilArray}

Deep3 == Array(<<Array(<<Array(<<Bulk(CRLF), IntV(I64MinusOne)>>)>>),
                Error(<<97>>)>>)
Deep4 == Array(<<Deep3, Array(<< >>)>>)

\* arrays in arrays holding integers and bulk strings only
Nested ==
    Array(<<Array(<<Bulk(CRLF), IntV(I64Min)>>), Array(<< >>), Bulk(<< >>),
            Array(<<Array(<<IntV(I64Max)>>)>>)>>)

Arrays ==
    {Array(<< >>), Deep3, Deep4, Nested,
     Array(<<Bulk(<<97>>), NilBulk, Bulk(<<LF, 97>>)>>),
     Array(<<Array(<<NilArray>>), IntV(I64Max)>>)}
        \cup {Array(<<x>>) : x \in Leaves}

Values == Leaves \cup Arrays

\* the values that are put back to back on one stream
CoreValues ==
    {IntV(I64(FALSE, <<4, 2>>)), Bulk(<< >>), Bulk(CRLF), Bulk(<<97, LF>>),
     Error(<<97>>), Error(<<LF>>), NilBulk, NilArray, Array(<< >>),
     Array(<<Bulk(<<CR>>), Array(<<IntV(I64Zero)>>)>>)}

\* chunks on which a read() fails wherever they stand
BadChunks ==
    {<<97>> \o CRLF, <<Colon>> \o CRLF, <<Dollar, Minus, Zero + 2>> \o CRLF,
     <<Dollar, Zero + 1>> \o CRLF \o <<97, 97>> \o CRLF}

Item(good, v, bytes) == [good |-> good, v |-> v, bytes |-> bytes]
GoodItems == {Item(TRUE, v, WireEnc(v)) : v \in CoreValues}
BadItems == {Item(FALSE, NoValue, c) : c \in BadChunks}
Items == GoodItems \cup BadItems

ItemBytes(items) == Concat([i \in 1..Len(items) |-> items[i].bytes])
ItemValues(items) == [i \in 1..Len(items) |-> items[i].v]

\* commands: sequences of byte strings
Passwords == {<<112>>, <<112, 119>>, << >>, <<CR, LF>>, LongStr}
Commands ==
    {<< >>, <<<<80, 73, 78, 71>>>>, <<<<103>>, <<107>>>>, <<<< >>, LongStr>>,
     <<<<CR, LF>>, <<255>>, <<97>>>>}
        \cup {<<a>> : a \in Strs} \cup {<<AuthName, p>> : p \in Passwords}

Ends == {"eof", "err"}

\* ------------------------------------------------------------------ state
VARIABLES
    wbuffers,   \* the sink type W holds what it accepts until flush()
    wbuf,       \* bytes W accepted and has not delivered yet
    sink,       \* bytes delivered by W (to the transport, or the Cursor)
    stream,     \* unread bytes of the reader's source R
    rend,       \* what R returns once its bytes are exhausted
    conn,       \* "none", "ready", "failed", "panicked"
    ret,        \* outcome of the last call
    log,        \* writer / reader calls made by the last call, in order
    call,       \* the last call and its inputs
    given,      \* how the bytes put on the stream were built
    got,        \* outcomes of the read() calls made so far on the stream
    nexec       \* execute calls made on the connection

vars == <<wbuffers, wbuf, sink, stream, rend, conn, ret, log, call, given,
          got, nexec>>

NoRet == [st |-> "none", val |-> NoValue, err |-> NoError, reads |-> 0]
RetOf(r) == [st |-> r.st, val |-> r.val, err |-> r.err, reads |-> r.reads]
RetOk(v) == [st |-> "ok", val |-> v, err |-> NoError, reads |-> 0]
RetErr(e) == [st |-> "err", val |-> NoValue, err |-> e, reads |-> 0]

\* wok: the writing stage of the call returned Ok
Call(op, cmd, v, failAt, wok, reply, pre) ==
    [op |-> op, cmd |-> cmd, v |-> v, failAt |-> failAt, wok |-> wok,
     reply |-> reply, pre |-> pre]
NoReply == [bytes |-> << >>, wf |-> FALSE, v |-> NoValue]
NoCall == Call("none", << >>, NoValue, 0, FALSE, NoReply, << >>)

\* fam "seq": items back to back, after a `*n` header when n >= 0;
\* fam "bulk": a `$n` header in the given spelling, then body
Given(fam, n, form, items, body) ==
    [fam |-> fam, n |-> n, form |-> form, items |-> items, body |-> body]
NoGiven == Given("none", 0 - 1, "plain", << >>, << >>)

\* bytes pushed through W: kept in wbuf by a buffering W, delivered otherwise
Accept(bytes) ==
    /\ wbuf' = IF wbuffers THEN wbuf \o bytes ELSE wbuf
    /\ sink' = IF wbuffers THEN sink ELSE sink \o bytes

\* ------------------------------------------------------------------ codec
\* A writer over a sink and a reader over the bytes the sink received, as
\* tests::test_write_array and tests::test_read set them up.

InitCodec ==
    /\ wbuffers \in BOOLEAN
    /\ wbuf = << >>
    /\ sink = << >>
    /\ stream = << >>
    /\ rend = "eof"
    /\ conn = "none"
    /\ ret = NoRet
    /\ log = << >>
    /\ call = NoCall
    /\ given = NoGiven
    /\ got = << >>
    /\ nexec = 0

Has(l, e) == \E i \in 1..Len(l) : l[i] = e
Count(l, e) == Cardinality({i \in 1..Len(l) : l[i] = e})

\* flush() calls made on one writer
MaxFlush == 2

\* RespWriter::write(v)
W_write(v, failAt) ==
    /\ call.op = "none"
    /\ LET em == Emit(WriteChunks(v), failAt)
       IN  /\ Accept(em.bytes)
           /\ ret' = IF em.ok THEN RetOk(NoValue) ELSE RetErr(IoError)
           /\ call' = Call("write", << >>, v, failAt, em.ok, NoReply, << >>)
    /\ log' = Append(log, "write")
    /\ UNCHANGED <<wbuffers, stream, rend, conn, given, got, nexec>>

\* RespWriter::write_bulks(bs)
W_write_bulks(bs, failAt) ==
    /\ call.op = "none"
    /\ LET em == Emit(WriteBulksChunks(bs), failAt)
       IN  /\ Accept(em.bytes)
           /\ ret' = IF em.ok THEN RetOk(NoValue) ELSE RetErr(IoError)
           /\ call' = Call("write_bulks", bs, NoValue, failAt, em.ok,
                           NoReply, << >>)
    /\ log' = Append(log, "write_bulks")
    /\ UNCHANGED <<wbuffers, stream, rend, conn, given, got, nexec>>

\* a flush() that forgets what W delivered before
FlushedSink_OnlyPending == wbuf

\* what the sink holds once W delivered what it held
FlushedSink == sink \o wbuf

\* RespWriter::flush(): W delivers what it holds.  Only a W with bytes to
\* deliver can fail (fail), and then it keeps them.
W_flush(fail) ==
    /\ ~Has(log, "read")
    /\ Count(log, "flush") < MaxFlush
    /\ fail => wbuf # << >>
    /\ sink' = IF fail THEN sink ELSE FlushedSink
    /\ wbuf' = IF fail THEN wbuf ELSE << >>
    /\ ret' = IF fail THEN RetErr(IoError) ELSE RetOk(NoValue)
    /\ log' = Append(log, "flush")
    /\ UNCHANGED <<wbuffers, stream, rend, conn, call, given, got, nexec>>

\* into_inner() and a RespReader over the bytes the sink holds: one read()
R_readback ==
    /\ call.op \in {"write", "write_bulks"}
    /\ ~Has(log, "read")
    /\ wbuf = << >>
    /\ LET r == read(sink, rend)
       IN  /\ ret' = RetOf(r)
           /\ stream' = r.rest
           /\ got' = Append(got, RetOf(r))
    /\ log' = Append(log, "read")
    /\ call' = [call EXCEPT !.pre = sink]
    /\ UNCHANGED <<wbuffers, wbuf, sink, rend, conn, given, nexec>>

NextCodec ==
    \/ \E v \in Values, f \in 0..MaxFailAt : W_write(v, f)
    \/ \E bs \in Commands, f \in 0..MaxFailAt : W_write_bulks(bs, f)
    \/ \E fail \in BOOLEAN : W_flush(fail)
    \/ R_readback

SpecCodec == InitCodec /\ [][NextCodec]_vars

\* ------------------------------------------------------------------ reader
\* A RespReader over a Cursor holding given bytes, read() called repeatedly.

\* spellings of a length that i64::from_str accepts
\* a declared array count far above what any stream here holds
BigCount == 1000

LenForm(n, form) ==
    CASE form = "plain" -> FmtUsize(n)
      [] form = "plus" -> <<Plus>> \o FmtUsize(n)
      [] form = "zero" -> <<Zero>> \o FmtUsize(n)
Forms == {"plain", "plus", "zero"}

\* fam "line": one line in four pieces, the tag, the span after it, the
\* terminator and what follows, kept as the bytes of four items
Piece(bytes) == Item(FALSE, NoValue, bytes)
Line(tag, span, term, tail) ==
    Given("line", 0 - 1, "plain",
          <<Piece(tag), Piece(span), Piece(term), Piece(tail)>>, << >>)

Tags == {<< >>, <<Colon>>, <<Plus>>, <<Minus>>, <<Dollar>>, <<Star>>, <<98>>,
         <<255>>}

\* "10000000000000000000", above every i64
TwentyDigits == <<Zero + 1>> \o Repeat(Zero, 19)
\* magnitude of i64::MIN - 1
BelowMinMag == <<9,2,2,3,3,7,2,0,3,6,8,5,4,7,7,5,8,0,9>>

Spans ==
    {<< >>, <<Zero>>, <<Zero + 1>>, <<Minus, Zero + 1>>, <<Minus, Zero + 2>>,
     <<Minus, Zero, Zero + 1>>, <<Minus, Zero>>, <<Plus, Zero + 5>>, <<Plus>>,
     <<Minus>>, <<Minus, Minus, Zero + 1>>, <<Zero, Zero, Zero + 7>>,
     <<32, Zero + 1>>, <<Zero + 1, 32>>, <<Zero + 1, 97>>, <<97>>, <<255>>,
     <<195, 169>>, <<Zero + 1, CR>>,
     DigitBytes(MaxMagPos), DigitBytes(MaxMagNeg),
     <<Plus>> \o DigitBytes(MaxMagPos), <<Minus>> \o DigitBytes(MaxMagNeg),
     <<Minus>> \o DigitBytes(BelowMinMag), TwentyDigits}

Terms == {CRLF, <<LF>>, <<CR>>, << >>}
Tails == {<< >>, CRLF, <<Colon, Zero + 1>> \o CRLF, <<97>>}

StreamOf(g) ==
    IF g.fam = "seq"
    THEN (IF g.n < 0 THEN << >> ELSE <<Star>> \o FmtUsize(g.n) \o CRLF)
            \o ItemBytes(g.items)
    ELSE IF g.fam = "line" THEN ItemBytes(g.items)
    ELSE <<Dollar>> \o LenForm(g.n, g.form) \o CRLF \o g.body

ReadInputs ==
    {Given("seq", n, "plain", items, << >>) :
        n \in (0 - 1)..(MaxVals + 1), items \in SeqsUpTo(Items, MaxVals)}
    \cup {Given("seq", 0 - 1, "plain", <<Item(TRUE, v, WireEnc(v))>>, << >>) :
        v \in Values}
    \cup {Given("seq", BigCount, "plain", items, << >>) :
        items \in SeqsUpTo(GoodItems, 1)}
    \cup {Given("bulk", n, form, << >>, body) :
        n \in 0..(MaxLen + 1), form \in Forms,
        body \in SeqsUpTo(Alphabet, MaxLen + 2)}
    \cup {Given("bulk", LongLen, "plain", << >>, LongStr \o t) :
        t \in {<< >>, CRLF, <<CR>>, <<97>> \o CRLF}}
    \cup {Line(tag, span, term, tail) :
        tag \in Tags, span \in Spans, term \in Terms, tail \in Tails}

InitRead ==
    /\ given \in ReadInputs
    /\ stream = StreamOf(given)
    /\ rend \in Ends
    /\ wbuffers = FALSE
    /\ wbuf = << >>
    /\ sink = << >>
    /\ conn = "none"
    /\ ret = NoRet
    /\ log = << >>
    /\ call = NoCall
    /\ got = << >>
    /\ nexec = 0

\* RespReader::read() on the stream
R_read ==
    /\ given.fam # "none"
    /\ Len(got) <= MaxVals
    /\ ret.st # "panic"
    /\ LET r == read(stream, rend)
       IN  /\ ret' = RetOf(r)
           /\ stream' = r.rest
           /\ got' = Append(got, RetOf(r))
    /\ log' = Append(log, "read")
    /\ call' = [call EXCEPT !.op = "read", !.pre = stream]
    /\ UNCHANGED <<wbuffers, wbuf, sink, rend, conn, given, nexec>>

NextRead == R_read

SpecRead == InitRead /\ [][NextRead]_vars

\* ------------------------------------------------------------------ connection
\* GenericConnection over a transport whose far end is a server.  The server
\* answers a command it received completely with one reply; a reply is any
\* byte string, well formed (wf, the wire form of v) or not.

Reply(bytes, wf, v) == [bytes |-> bytes, wf |-> wf, v |-> v]

ReplyValues ==
    {Error(<<69, 82, 82>>), Error(<<255, CR>>),
     Array(<<Error(<<97>>), Bulk(CRLF)>>)}

Replies ==
    {Reply(WireEnc(v), TRUE, v) : v \in ReplyValues}
        \cup {Reply(<<Plus, 79, 75>> \o CRLF, TRUE, Bulk(<<79, 75>>))}
        \cup {Reply(b, FALSE, NoValue) :
                b \in {<< >>, CRLF, <<Minus, 69>>,
                       <<97>> \o CRLF \o <<Colon, Zero + 7>> \o CRLF,
                       <<Dollar, Zero + 5>> \o CRLF \o <<97>>}}

ConnCommands == {<<<<80, 73, 78, 71>>>>, <<<<103>>, <<CR, LF>>>>}
ConnPasswords == {<<112, 119>>, << >>, LongStr}

\* auth() with its two arguments in the wrong order
AuthCommand_Swapped(password) == <<password, AuthName>>

\* the command auth() builds
AuthCommand(password) == <<AuthName, password>>

\* an execute() that parses the reply and leaves its bytes on the stream
execute_KeepsReply(cmd, failAt, reply) ==
    LET em == Emit(WriteBulksChunks(cmd), failAt)
        arrived == IF em.ok /\ ~wbuffers THEN reply.bytes ELSE << >>
        r == read(stream \o arrived, rend)
    IN  IF ~em.ok
        THEN [bytes |-> em.bytes, wok |-> FALSE, ret |-> RetErr(IoError),
              stream |-> stream, log |-> <<"write_bulks">>]
        ELSE [bytes |-> em.bytes, wok |-> TRUE, ret |-> RetOf(r),
              stream |-> stream \o arrived, log |-> <<"write_bulks", "read">>]

\* GenericConnection::execute: what it pushes through W, what it returns,
\* where it leaves the stream and which calls it made.  The reply arrives
\* only when the whole command was delivered to the transport.
execute(cmd, failAt, reply) ==
    LET em == Emit(WriteBulksChunks(cmd), failAt)
        arrived == IF em.ok /\ ~wbuffers THEN reply.bytes ELSE << >>
        r == read(stream \o arrived, rend)
    IN  IF ~em.ok
        THEN [bytes |-> em.bytes, wok |-> FALSE, ret |-> RetErr(IoError),
              stream |-> stream, log |-> <<"write_bulks">>]
        ELSE [bytes |-> em.bytes, wok |-> TRUE, ret |-> RetOf(r),
              stream |-> r.rest, log |-> <<"write_bulks", "read">>]

\* the fault index as it acted: 0 when no write call of the command failed
Acted(cmd, failAt) ==
    IF failAt <= Len(WriteBulksChunks(cmd)) THEN failAt ELSE 0

Apply(op, cmd, failAt, reply, x) ==
    /\ Accept(x.bytes)
    /\ stream' = x.stream
    /\ log' = x.log
    /\ got' = IF x.wok THEN Append(got, x.ret) ELSE got
    /\ call' = Call(op, cmd, NoValue, Acted(cmd, failAt), x.wok,
                    IF x.wok /\ ~wbuffers THEN reply ELSE NoReply, stream)
    /\ given' = IF x.wok /\ ~wbuffers
                THEN [given EXCEPT
                        !.items = Append(@, Item(reply.wf, reply.v,
                                                 reply.bytes))]
                ELSE given

Init ==
    /\ wbuffers \in BOOLEAN
    /\ rend \in Ends
    /\ wbuf = << >>
    /\ sink = << >>
    /\ stream = << >>
    /\ conn = "none"
    /\ ret = NoRet
    /\ log = << >>
    /\ call = NoCall
    /\ given = NoGiven
    /\ got = << >>
    /\ nexec = 0

\* GenericConnection::new(r, w)
New ==
    /\ conn = "none"
    /\ conn' = "ready"
    /\ call' = [NoCall EXCEPT !.op = "new"]
    /\ UNCHANGED <<wbuffers, wbuf, sink, stream, rend, ret, log, given, got,
                   nexec>>

\* the io::Result connect() returns for the outcome of its auth() call
ConnectResult(x) ==
    IF x.ret.st = "err"
    THEN [conn |-> "failed",
          ret |-> RetErr([kind |-> "PermissionDenied",
                          msg |-> "failed on auth", ch |-> 0])]
    ELSE IF x.ret.st = "panic"
    THEN [conn |-> "panicked", ret |-> x.ret]
    ELSE [conn |-> "ready", ret |-> RetOk(NoValue)]

\* connect(addr, None) greeting the server with a PING before it returns
ConnectPlain_Pings ==
    /\ conn = "none"
    /\ ~wbuffers
    /\ conn' = "ready"
    /\ ret' = RetOk(NoValue)
    /\ call' = [NoCall EXCEPT !.op = "connect"]
    /\ sink' = sink \o Concat(WriteBulksChunks(<<<<80, 73, 78, 71>>>>))
    /\ UNCHANGED <<wbuffers, wbuf, stream, rend, log, given, got, nexec>>

\* TcpConnection::connect(addr, None)
ConnectPlain ==
    /\ conn = "none"
    /\ ~wbuffers
    /\ conn' = "ready"
    /\ ret' = RetOk(NoValue)
    /\ call' = [NoCall EXCEPT !.op = "connect"]
    /\ UNCHANGED <<wbuffers, wbuf, sink, stream, rend, log, given, got,
                   nexec>>

\* TcpConnection::connect(addr, _) when TcpStream::connect or try_clone fails
ConnectRefused ==
    /\ conn = "none"
    /\ ~wbuffers
    /\ conn' = "failed"
    /\ ret' = RetErr(IoError)
    /\ call' = [NoCall EXCEPT !.op = "connect"]
    /\ UNCHANGED <<wbuffers, wbuf, sink, stream, rend, log, given, got,
                   nexec>>

\* TcpConnection::connect(addr, Some(password))
ConnectAuth(password, failAt, reply) ==
    /\ conn = "none"
    /\ ~wbuffers
    /\ LET cmd == AuthCommand(password)
           x == execute(cmd, failAt, reply)
           c == ConnectResult(x)
       IN  /\ Apply("connect_auth", cmd, failAt, reply, x)
           /\ conn' = c.conn
           /\ ret' = c.ret
    /\ UNCHANGED <<wbuffers, rend, nexec>>

\* an execute() that refuses to run once an execute() has failed
Execute_Faulted(cmd, failAt, reply) ==
    /\ conn = "ready"
    /\ nexec < MaxExec
    /\ IF call.op = "execute" /\ ret.st = "err"
       THEN /\ ret' = RetErr(ParseFailed("connection no longer usable"))
            /\ call' = Call("execute", cmd, NoValue, 0, FALSE, NoReply,
                            stream)
            /\ log' = << >>
            /\ UNCHANGED <<wbuf, sink, stream, got, given, conn>>
       ELSE LET x == execute(cmd, failAt, reply)
            IN  /\ Apply("execute", cmd, failAt, reply, x)
                /\ ret' = x.ret
                /\ conn' = IF x.ret.st = "panic" THEN "panicked" ELSE conn
    /\ nexec' = nexec + 1
    /\ UNCHANGED <<wbuffers, rend>>

\* GenericConnection::execute(cmd) by the caller holding the connection
Execute(cmd, failAt, reply) ==
    /\ conn = "ready"
    /\ nexec < MaxExec
    /\ LET x == execute(cmd, failAt, reply)
       IN  /\ Apply("execute", cmd, failAt, reply, x)
           /\ ret' = x.ret
           /\ conn' = IF x.ret.st = "panic" THEN "panicked" ELSE conn
    /\ nexec' = nexec + 1
    /\ UNCHANGED <<wbuffers, rend>>

Next ==
    \/ New
    \/ ConnectPlain
    \/ ConnectRefused
    \/ \E p \in ConnPasswords, f \in 0..MaxFailAt, r \in Replies :
            ConnectAuth(p, f, r)
    \/ \E c \in ConnCommands, f \in 0..MaxFailAt, r \in Replies :
            Execute(c, f, r)

Spec == Init /\ [][Next]_vars

\* ------------------------------------------------------------------ properties
Last(l) == l[Len(l)]

\* every byte the writer has emitted, delivered or still held by W
Emitted == sink \o wbuf

\* decimal digits of a number below 100, as the wire format spells a length
Decimal(n) ==
    IF n < 10 THEN <<Zero + n>> ELSE <<Zero + (n \div 10), Zero + (n % 10)>>

BulkWire(b) == <<Dollar>> \o Decimal(Len(b)) \o CRLF \o b \o CRLF

\* no Error payload of v holds an LF byte
RECURSIVE Clean(_)
Clean(v) ==
    CASE v.tag = "Error" -> ~HasLF(v.b)
      [] v.tag = "Array" -> \A i \in 1..Len(v.a) : Clean(v.a[i])
      [] OTHER -> TRUE

\* values in the tree of v
RECURSIVE Nodes(_)
RECURSIVE SumNodes(_)
SumNodes(a) == IF Len(a) = 0 THEN 0 ELSE Nodes(Head(a)) + SumNodes(Tail(a))
Nodes(v) == IF v.tag = "Array" THEN 1 + SumNodes(v.a) ELSE 1

WroteAndReadBack == call.op = "write" /\ call.wok /\ Has(log, "read")

\* C1: the bytes write(v) produces are decoded by read() into a value equal
\* to v, for every value v (all six variants, nested arrays included).
C1_RoundTrip ==
    WroteAndReadBack => ret.st = "ok" /\ ret.val = call.v

\* C2: when the server answers the AUTH command of connect() with a well
\* formed Error reply, connect() returns an error and hands out no connection.
C2_RejectedPasswordFails ==
    (/\ call.op = "connect_auth"
     /\ call.wok
     /\ call.reply.wf
     /\ call.reply.v.tag = "Error")
        => conn # "ready" /\ ret.st = "err"

\* C3: every execute(command) serializes the command, flushes the writer and
\* then makes exactly one read(); the flush precedes the read, so nothing of
\* the command is still held by the writer when the read begins.
C3_FlushBeforeRead ==
    (call.op = "execute" /\ call.wok)
        => log = <<"write_bulks", "flush", "read">> /\ wbuf = << >>

\* C4 (as claimed): with the wire forms of values v1..vk back to back on the
\* stream, the i-th read() returns vi and leaves exactly the wire forms of
\* v(i+1)..vk unread, for all values.
BackToBack == given.fam = "seq" /\ given.n < 0
AllGood(items) == \A j \in 1..Len(items) : items[j].good
AllClean(items) == \A j \in 1..Len(items) : Clean(items[j].v)
ReadInOrder ==
    LET i == Len(got)
    IN  i <= Len(given.items) =>
            /\ \A j \in 1..i :
                  got[j].st = "ok" /\ got[j].val = given.items[j].v
            /\ stream = ItemBytes(Drop(given.items, i))

C4_ExactConsumeAll ==
    (BackToBack /\ AllGood(given.items)) => ReadInOrder

\* C4 (amended): the same, for values whose Error payloads hold no LF byte.
C4_ExactConsume ==
    (BackToBack /\ AllGood(given.items) /\ AllClean(given.items))
        => ReadInOrder

C4_Witness ==
    /\ BackToBack
    /\ Len(given.items) = 2
    /\ given.items[1].v = Bulk(CRLF)
    /\ given.items[2].v.tag = "Array"
    /\ Len(given.items[2].v.a) = 2
    /\ Len(got) = 1
    /\ got[1].st = "ok"
    /\ stream = given.items[2].bytes

\* C5: write(NilBulkString) emits exactly `$-1\r\n` and write(NilArray)
\* exactly `*-1\r\n`.
C5_NilForms ==
    (call.op = "write" /\ call.wok) =>
        /\ call.v = NilBulk => Emitted = <<Dollar, Minus, Zero + 1, CR, LF>>
        /\ call.v = NilArray => Emitted = <<Star, Minus, Zero + 1, CR, LF>>

\* C6: whenever the line at the reader's cursor is `-<bytes>\r\n`, read(),
\* and execute() with it, returns Ok(Error(<bytes>)); execute() fails only
\* when the write failed or the bytes at the cursor are not a well formed
\* reply (malformed, cut short, or none arrived).
Cursor == call.pre \o call.reply.bytes
ErrorLineEnd(s) ==
    IF Len(s) >= 3 /\ s[1] = Minus /\ FirstLF(s, 1) >= 3
          /\ s[FirstLF(s, 1) - 1] = CR
    THEN FirstLF(s, 1) ELSE 0
Exchanged == call.op \in {"execute", "connect_auth"} /\ call.wok

C6_ErrorReplyIsValue ==
    /\ (Exchanged /\ ErrorLineEnd(Cursor) > 0) =>
          /\ Last(got).st = "ok"
          /\ Last(got).val =
                Error(SubSeq(Cursor, 2, ErrorLineEnd(Cursor) - 2))
          /\ call.op = "execute" => ret = Last(got)
    /\ (call.op = "execute" /\ ret.st = "err") =>
          \/ ~call.wok /\ ret.err = IoError
          \/ call.wok /\ ret.err.kind = "ParseFailed"
                /\ ~(call.pre = << >> /\ call.reply.wf)

C6_Witness ==
    /\ call.op = "execute"
    /\ call.wok
    /\ ret.st = "ok"
    /\ ret.val = Error(<<255, CR>>)

\* C7 (as claimed): auth(password) sends exactly
\* `*2\r\n$4\r\nAUTH\r\n$<len>\r\n<password>\r\n` and then reads one reply.
AuthWire(name, password) ==
    <<Star, Zero + 2, CR, LF, Dollar, Zero + 4, CR, LF>> \o name \o CRLF
        \o BulkWire(password)

C7_AuthBytesUpper ==
    (call.op = "connect_auth" /\ call.wok) =>
        /\ sink = AuthWire(AuthUpper, call.cmd[2])
        /\ log = <<"write_bulks", "read">>

\* C7 (amended): auth(password) sends exactly
\* `*2\r\n$4\r\nauth\r\n$<len>\r\n<password>\r\n`, the command name in lower
\* case, and nothing else, and then reads one reply.
C7_AuthBytes ==
    (call.op = "connect_auth" /\ call.wok) =>
        /\ sink = AuthWire(<<97, 117, 116, 104>>, call.cmd[2])
        /\ call.cmd[2] \in ConnPasswords
        /\ log = <<"write_bulks", "read">>
        /\ Len(got) = 1

C7_Witness ==
    /\ call.op = "connect_auth"
    /\ call.wok
    /\ Len(call.cmd) = 2
    /\ call.cmd[2] = LongStr
    /\ conn = "ready"

\* C8: write_bulks(b1..bk) emits `*k\r\n` and then `$<len(bi)>\r\n<bi>\r\n`
\* for each i in order, and nothing else (["PING"] gives
\* `*1\r\n$4\r\nPING\r\n`); the same bytes as write(Array([Bulk(b1)..])).
C8_WriteBulks ==
    (call.op = "write_bulks" /\ call.wok) =>
        LET bs == call.cmd
        IN  /\ Emitted = <<Star>> \o Decimal(Len(bs)) \o CRLF
                  \o Concat([i \in 1..Len(bs) |-> BulkWire(bs[i])])
            /\ Emitted =
                  Concat(WriteChunks(Array([i \in 1..Len(bs) |-> Bulk(bs[i])])))
            /\ bs = <<<<80, 73, 78, 71>>>> =>
                  Emitted = <<Star, Zero + 1, CR, LF, Dollar, Zero + 4, CR, LF,
                              80, 73, 78, 71, CR, LF>>

C8_Witness ==
    /\ call.op = "write_bulks"
    /\ call.wok
    /\ call.cmd = <<<< >>, LongStr>>
    /\ Len(Emitted) = 4 + 6 + 5 + LongLen + 2

\* C9: after a `$n` header with n >= 0, read() returns Bulk of exactly the
\* next n bytes, whatever they are, when CR LF follows them at once, leaving
\* what comes after unread; in every other case (fewer than n bytes, or the
\* line after the payload not empty or not CR LF terminated) it fails with a
\* parse error and returns no value.
BulkCase == given.fam = "bulk" /\ Len(got) >= 1
TrailerAt(body, n) ==
    Len(body) >= n + 2 /\ body[n + 1] = CR /\ body[n + 2] = LF

C9_BulkExact ==
    BulkCase =>
        IF TrailerAt(given.body, given.n)
        THEN /\ got[1].st = "ok"
             /\ got[1].val = Bulk(Take(given.body, given.n))
             /\ Len(got) = 1 => stream = Drop(given.body, given.n + 2)
        ELSE /\ got[1].st = "err"
             /\ got[1].err.kind = "ParseFailed"
             /\ got[1].val = NoValue

C9_Witness ==
    /\ BulkCase
    /\ given.n = 2
    /\ given.form = "zero"
    /\ got[1].st = "ok"
    /\ got[1].val = Bulk(<<LF, CR>>)
    /\ Len(got) = 1
    /\ stream = << >>

\* C10: after a `*n` header with n >= 0, read() returns an Array of exactly
\* n elements, the values of the next n element forms in stream order, each
\* from one recursive read(); when any of the n element reads fails the
\* whole read fails and no partial Array is returned.
ArrayCase == given.fam = "seq" /\ given.n >= 0 /\ Len(got) >= 1
Readable(items, n) ==
    /\ Len(items) >= n
    /\ \A j \in 1..n : items[j].good /\ Clean(items[j].v)

C10_ArrayExact ==
    ArrayCase =>
        IF Readable(given.items, given.n)
        THEN /\ got[1].st = "ok"
             /\ got[1].val = Array(ItemValues(Take(given.items, given.n)))
             /\ got[1].reads = Nodes(got[1].val)
             /\ Len(got) = 1 =>
                    stream = ItemBytes(Drop(given.items, given.n))
        ELSE /\ got[1].st = "err"
             /\ got[1].val = NoValue

C10_Witness ==
    /\ ArrayCase
    /\ given.n = 2
    /\ Len(given.items) = 2
    /\ got[1].st = "ok"
    /\ got[1].val.a[2].tag = "Array"
    /\ Len(got[1].val.a[2].a) = 2
    /\ got[1].val.a[2].a[2].tag = "Array"
    /\ got[1].reads = 6

\* ------------------------------------------------------------------ first line
\* The first line of the given bytes, cut as the wire format cuts it: up to
\* the first LF, terminated when a CR stands right before that LF.
Given0 == StreamOf(given)
LinePos == FirstLF(Given0, 1)
Terminated == LinePos >= 2 /\ Given0[LinePos - 1] = CR
TheLine == Take(Given0, LinePos - 2)
AfterLine == Drop(Given0, LinePos)
FirstRead == given.fam = "line" /\ Len(got) >= 1
TaggedLine(t) == Terminated /\ Len(TheLine) >= 1 /\ TheLine[1] = t
TheSpan == Tail(TheLine)

AllDigits(b) == Len(b) > 0 /\ \A i \in 1..Len(b) : b[i] \in Zero..(Zero + 9)

\* the spans of the inputs that spell a decimal number outside the i64 range
OutOfRange ==
    {DigitBytes(MaxMagNeg), <<Minus>> \o DigitBytes(BelowMinMag), TwentyDigits}

\* a decimal number in the i64 range after an optional sign out of `signs`
Numeral(b, signs) ==
    /\ AllDigits(IF Len(b) > 0 /\ b[1] \in signs THEN Tail(b) ELSE b)
    /\ b \notin OutOfRange

\* the number each numeral among the inputs denotes
Denotes(b) ==
    CASE b \in {<<Zero>>, <<Minus, Zero>>} -> I64Zero
      [] b = <<Zero + 1>> -> I64(FALSE, <<1>>)
      [] b \in {<<Minus, Zero + 1>>, <<Minus, Zero, Zero + 1>>} -> I64MinusOne
      [] b = <<Minus, Zero + 2>> -> I64(TRUE, <<2>>)
      [] b = <<Plus, Zero + 5>> -> I64(FALSE, <<5>>)
      [] b = <<Zero, Zero, Zero + 7>> -> I64(FALSE, <<7>>)
      [] b \in {DigitBytes(MaxMagPos), <<Plus>> \o DigitBytes(MaxMagPos)} ->
            I64Max
      [] b = <<Minus>> \o DigitBytes(MaxMagNeg) -> I64Min

NilOf(t) == IF t = Dollar THEN NilBulk ELSE NilArray
StartsWithCRLF(b) == Len(b) >= 2 /\ b[1] = CR /\ b[2] = LF

\* C11: for a `$` or `*` line, -1 is the only length or count that yields
\* the nil variant, every value below -1 is a parse error, and 0 yields the
\* empty BulkString (`$0\r\n\r\n`) or the empty Array (`*0\r\n`), which are
\* not the nil variants.
C11_LengthClasses ==
    FirstRead =>
        /\ got[1].val \in {NilBulk, NilArray} =>
              /\ TaggedLine(Dollar) \/ TaggedLine(Star)
              /\ got[1].val = NilOf(TheLine[1])
              /\ Numeral(TheSpan, {Plus, Minus})
              /\ Denotes(TheSpan) = I64MinusOne
        /\ \A t \in {Dollar, Star} :
              (TaggedLine(t) /\ Numeral(TheSpan, {Plus, Minus})) =>
                LET n == Denotes(TheSpan)
                IN  /\ n = I64MinusOne =>
                          /\ got[1].st = "ok"
                          /\ got[1].val = NilOf(t)
                          /\ Len(got) = 1 => stream = AfterLine
                    /\ (n.neg /\ n # I64MinusOne) =>
                          /\ got[1].st = "err"
                          /\ got[1].err = ParseFailed("malformed length")
                    /\ (n = I64Zero /\ t = Star) =>
                          /\ got[1].st = "ok"
                          /\ got[1].val = Array(<< >>)
                          /\ got[1].val # NilArray
                          /\ Len(got) = 1 => stream = AfterLine
                    /\ (n = I64Zero /\ t = Dollar
                            /\ StartsWithCRLF(AfterLine)) =>
                          /\ got[1].st = "ok"
                          /\ got[1].val = Bulk(<< >>)
                          /\ got[1].val # NilBulk
                          /\ Len(got) = 1 => stream = Drop(AfterLine, 2)

C11_Witness ==
    /\ FirstRead
    /\ TheLine = <<Dollar, Minus, Zero>>
    /\ StartsWithCRLF(AfterLine)
    /\ got[1].st = "ok"
    /\ got[1].val = Bulk(<< >>)

\* C12 (as claimed): the span after `:`, `$` or `*` is accepted exactly when
\* it is an optional `-` and one or more decimal digits denoting an i64;
\* every other span gives ParseFailed, never a crash, a wrapped value or 0.
ParseIntErrors ==
    {ParseFailed("malformed integer"), ParseFailed("bad utf8"),
     ParseFailed("parse int failed")}

IntSyntax(signs) ==
    FirstRead =>
        /\ TaggedLine(Colon) =>
              IF Numeral(TheSpan, signs)
              THEN /\ got[1].st = "ok"
                   /\ got[1].val = IntV(Denotes(TheSpan))
                   /\ Len(got) = 1 => stream = AfterLine
              ELSE /\ got[1].st = "err"
                   /\ got[1].err \in ParseIntErrors
                   /\ got[1].val = NoValue
        /\ \A t \in {Dollar, Star} :
              TaggedLine(t) =>
                IF Numeral(TheSpan, signs)
                THEN got[1].st = "err" => got[1].err \notin ParseIntErrors
                ELSE /\ got[1].st = "err"
                     /\ got[1].err \in ParseIntErrors
                     /\ got[1].val = NoValue

C12_IntSyntaxMinusOnly == IntSyntax({Minus})

\* C12 (amended): the same with an optional `-` or `+` before the digits.
C12_IntSyntax == IntSyntax({Plus, Minus})

C12_Witness ==
    /\ FirstRead
    /\ TheLine = <<Colon, Minus>> \o DigitBytes(MaxMagNeg)
    /\ got[1].st = "ok"
    /\ got[1].val = IntV(I64Min)

\* C13: read() fails with a parse error and returns no value whenever the
\* first line does not end in CR LF (end of stream before a terminator
\* included) or begins with a byte other than `:`, `+`, `-`, `$`, `*`; for
\* an unrecognized tag the error names that byte.
KnownTags == {Colon, Plus, Minus, Dollar, Star}

C13_BadLineFails ==
    FirstRead =>
        /\ ~Terminated =>
              /\ got[1].st = "err"
              /\ got[1].err \in {ParseFailed("line not ends with CRLF"),
                                 ParseFailed("io err")}
              /\ got[1].val = NoValue
        /\ (Terminated /\ Len(TheLine) >= 1 /\ TheLine[1] \notin KnownTags) =>
              /\ got[1].st = "err"
              /\ got[1].err = UnexpectedToken(TheLine[1])
              /\ got[1].val = NoValue

C13_Witness ==
    /\ FirstRead
    /\ Terminated
    /\ TheLine = <<98, Zero + 1, 97>>
    /\ got[1].err = UnexpectedToken(98)

\* C16: a `+<bytes>\r\n` line yields Bulk(<bytes>) and a `-<bytes>\r\n` line
\* Error(<bytes>), the bytes between the tag and the CR LF unchanged, for
\* any bytes without LF (an empty payload and non-UTF-8 bytes included).
C16_LinesVerbatim ==
    FirstRead =>
        /\ TaggedLine(Plus) =>
              /\ got[1].st = "ok"
              /\ got[1].val = Bulk(TheSpan)
              /\ Len(got) = 1 => stream = AfterLine
        /\ TaggedLine(Minus) =>
              /\ got[1].st = "ok"
              /\ got[1].val = Error(TheSpan)
              /\ Len(got) = 1 => stream = AfterLine

C16_Witness ==
    /\ FirstRead
    /\ TheLine = <<Plus, 255>>
    /\ got[1].st = "ok"
    /\ got[1].val = Bulk(<<255>>)
    /\ Len(got) = 2
    /\ got[2].val = IntV(I64(FALSE, <<1>>))

\* C18: read() is total: on every byte sequence, the empty stream and a
\* first line that is only CR LF included, it returns a value or a
\* ParseFailed error and never crashes.
C18_ReadTotal ==
    \A j \in 1..Len(got) :
        \/ got[j].st = "ok"
        \/ got[j].st = "err" /\ got[j].err.kind = "ParseFailed"

\* C14: connect without a password has written and read nothing when it
\* returns; connect with a password makes one AUTH exchange, the command
\* written once and at most one reply read (exactly one when the connection
\* is returned), and no execute of the caller has happened by then.
Untouched ==
    /\ sink = << >> /\ wbuf = << >> /\ stream = << >>
    /\ log = << >> /\ got = << >>

C14_HandshakeOrder ==
    /\ conn \in {"none", "failed"} => nexec = 0
    /\ call.op = "connect" => Untouched /\ nexec = 0
    /\ call.op = "connect_auth" =>
          /\ nexec = 0
          /\ call.cmd \in {AuthCommand(p) : p \in ConnPasswords}
          /\ log \in {<<"write_bulks">>, <<"write_bulks", "read">>}
          /\ Len(got) = Count(log, "read")
          /\ conn = "ready" =>
                /\ log = <<"write_bulks", "read">>
                /\ sink = Concat(WriteBulksChunks(call.cmd))
                /\ got[1].st = "ok"
                /\ stream = << >>

C14_Witness ==
    /\ call.op = "connect_auth"
    /\ conn = "ready"
    /\ call.cmd = AuthCommand(<<112, 119>>)
    /\ Len(got) = 1
    /\ got[1].val = Bulk(<<79, 75>>)
    /\ sink = Concat(WriteBulksChunks(AuthCommand(<<112, 119>>)))

\* C15: when the AUTH exchange of connect fails locally (a write call of the
\* command fails, the read of the reply fails, or the reply is malformed),
\* connect returns the PermissionDenied error "failed on auth: ..." and no
\* connection.
AuthFailedLocally == call.op = "connect_auth" /\ ~call.reply.wf

C15_AuthFailureReported ==
    AuthFailedLocally =>
        /\ conn = "failed"
        /\ ret.st = "err"
        /\ ret.err.kind = "PermissionDenied"
        /\ ret.err.msg = "failed on auth"

\* C17: a flush() with nothing pending returns Ok and leaves the bytes the
\* sink already received as they are; a flush() that returned Ok leaves
\* nothing pending, so each further flush() in a row changes nothing either.
FlushStep == log' = Append(log, "flush")

C17_FlushNoop ==
    /\ []((Len(log) >= 1 /\ Last(log) = "flush" /\ ret.st = "ok")
            => wbuf = << >>)
    /\ [][(FlushStep /\ wbuf = << >>)
            => (ret' = RetOk(NoValue) /\ sink' = sink /\ wbuf' = << >>)]_vars

C17_Witness ==
    /\ ~wbuffers
    /\ sink = Concat(WriteBulksChunks(<<<<80, 73, 78, 71>>>>))
    /\ log = <<"write_bulks", "flush", "flush">>
    /\ ret = RetOk(NoValue)

\* C19: on a connection whose every read() was answered by the server with
\* one well-formed reply, the replies in order, the i-th exchange returned
\* the i-th reply and no reply byte is left over on the stream.
Answered == Len(got) = Len(given.items)

C19_Pairing ==
    (conn # "none" /\ Answered /\ AllGood(given.items)) =>
        /\ \A j \in 1..Len(got) :
              got[j].st = "ok" /\ got[j].val = given.items[j].v
        /\ stream = << >>
        /\ (call.op = "execute" /\ call.wok) => ret = Last(got)

C19_Witness ==
    /\ nexec = 2
    /\ Len(got) = 3
    /\ AllGood(given.items)
    /\ got[1].val = Bulk(<<79, 75>>)
    /\ got[2].val = Array(<<Error(<<97>>), Bulk(CRLF)>>)
    /\ got[3].val = Error(<<69, 82, 82>>)
    /\ ret = got[3]

\* C20: an execute() that returned an error leaves the connection usable,
\* and the next execute() on it runs as any other: it writes its command and,
\* when the write succeeded, makes one read() on the stream from where the
\* failed call left it, the earlier failure having no effect on the outcome.
FailedExecute == call.op = "execute" /\ ret.st = "err"
LaterExecute == nexec' = nexec + 1

RunsAsUsual ==
    LET em == Emit(WriteBulksChunks(call'.cmd), call'.failAt)
        r == read(stream \o call'.reply.bytes, rend)
    IN  /\ call'.op = "execute"
        /\ call'.pre = stream
        /\ call'.wok = em.ok
        /\ Emitted' = Emitted \o em.bytes
        /\ IF em.ok
           THEN /\ log' = <<"write_bulks", "read">>
                /\ ret' = RetOf(r)
                /\ stream' = r.rest
                /\ got' = Append(got, ret')
           ELSE /\ log' = <<"write_bulks">>
                /\ ret' = RetErr(IoError)
                /\ stream' = stream
                /\ got' = got

C20_UsableAfterFailure ==
    /\ [](FailedExecute => conn = "ready")
    /\ [][(FailedExecute /\ LaterExecute) => RunsAsUsual]_vars

C20_Witness ==
    /\ nexec = 2
    /\ call.op = "execute"
    /\ Len(got) = 2
    /\ got[1].st = "err"
    /\ got[1].err = UnexpectedToken(97)
    /\ call.pre = <<Colon, Zero + 7>> \o CRLF
    /\ ret = got[2]
    /\ ret.val = IntV(I64(FALSE, <<7>>))
    /\ stream = << >>

\* C21: an execute() whose command write fails returns the transport error,
\* makes no read() and writes nothing again: the sink has received the write
\* calls before the failing one and no byte of the command after them.
WriteFailed == nexec' = nexec + 1 /\ ~call'.wok

C21_WriteFailureStops ==
    [][WriteFailed =>
        /\ call'.op = "execute"
        /\ call'.failAt \in 1..Len(WriteBulksChunks(call'.cmd))
        /\ ret' = RetErr(IoError)
        /\ log' = <<"write_bulks">>
        /\ got' = got
        /\ stream' = stream
        /\ Emitted' = Emitted \o Concat(Take(WriteBulksChunks(call'.cmd),
                                             call'.failAt - 1))]_vars

C21_Witness ==
    /\ call.op = "execute"
    /\ ~call.wok
    /\ call.cmd = <<<<103>>, CRLF>>
    /\ call.failAt = 2
    /\ sink = <<Star, Zero + 2>> \o CRLF
    /\ ret = RetErr(IoError)
    /\ log = <<"write_bulks">>
    /\ got = << >>

\* C22: for every value v built from Int, Bulk and Array only, read() over
\* the bytes write(v) produced returns a value equal to v and leaves no byte
\* unread.
RECURSIVE Restricted(_)
Restricted(v) ==
    CASE v.tag \in {"Int", "Bulk"} -> TRUE
      [] v.tag = "Array" -> \A i \in 1..Len(v.a) : Restricted(v.a[i])
      [] OTHER -> FALSE

C22_RestrictedRoundTrip ==
    (WroteAndReadBack /\ Restricted(call.v)) =>
        /\ ret.st = "ok"
        /\ ret.val = call.v
        /\ stream = << >>
        /\ call.pre = Concat(WriteChunks(call.v))

C22_Witness ==
    /\ WroteAndReadBack
    /\ call.v = Nested
    /\ ret.st = "ok"
    /\ ret.val = Nested
    /\ stream = << >>

\* C23: every read() returns, having made no more read() calls (its own and
\* the nested ones) than it consumed CR LF terminated lines, plus one for
\* the call that failed; a call that succeeded consumed a line.  An array
\* header that declares more elements than the stream holds gives a parse
\* error at the first missing element, after one call per value present.
Consumed == Take(call.pre, Len(call.pre) - Len(stream))
CRLFs(b) == Cardinality({i \in 1..(Len(b) - 1) : b[i] = CR /\ b[i + 1] = LF})

ShortArray ==
    /\ given.fam = "seq"
    /\ given.n > Len(given.items)
    /\ AllGood(given.items)
    /\ AllClean(given.items)

C23_ReadTerminates ==
    /\ call.op = "read" =>
          /\ Len(stream) <= Len(call.pre)
          /\ stream = Drop(call.pre, Len(call.pre) - Len(stream))
          /\ ret.st \in {"ok", "err", "panic"}
          /\ ret.reads >= 1
          /\ ret.reads <= CRLFs(Consumed) + (IF ret.st = "ok" THEN 0 ELSE 1)
          /\ ret.st = "ok" => Len(stream) + 3 <= Len(call.pre)
    /\ (ShortArray /\ Len(got) >= 1) =>
          /\ got[1].st = "err"
          /\ got[1].err = ParseFailed(IF rend = "eof"
                                        THEN "line not ends with CRLF"
                                        ELSE "io err")
          /\ got[1].reads = 2 + SumNodes(ItemValues(given.items))
          /\ stream = << >>

C23_Witness ==
    /\ given.fam = "seq"
    /\ given.n = BigCount
    /\ Len(given.items) = 1
    /\ given.items[1].v = Array(<<Bulk(<<CR>>), Array(<<IntV(I64Zero)>>)>>)
    /\ rend = "eof"
    /\ Len(got) = 1
    /\ got[1].err = ParseFailed("line not ends with CRLF")
    /\ got[1].reads = 6

====
